---- MODULE Spec2Model ----
(***************************************************************************)
(* A model of the user service of src/server.py (Flask views over a        *)
(* SQLAlchemy session), src/models.py (the app_users table) and            *)
(* src/schema.py (the pydantic request schemas).                           *)
(*                                                                         *)
(* Requests run concurrently, one per slot of Req.  A request takes one    *)
(* step per access to the store: Receive (before_request, routing,         *)
(* validation and hashing, all local to the process), Fetch                *)
(* (get_user_by_id), Commit (session.add/delete + session.commit) and      *)
(* Refresh (the reload of the expired object that user.dict triggers       *)
(* after a commit).  Whatever ends the view (a response, an HttpError, a   *)
(* routing error, an unhandled exception) goes through Finish, which       *)
(* models the error handlers and after_request.                            *)
(***************************************************************************)
EXTENDS Naturals, Sequences, FiniteSets, TLC

\* ------------------------------------------------------------ bounds
NReq == 2        \* request slots: how many requests may be in flight at once
MaxReqs == 3     \* requests received in one behaviour
MaxId == 2       \* values the primary-key sequence hands out

Req == 1..NReq
Ids == 1..MaxId

\* ------------------------------------------------------------ JSON values
\* A JSON value of a request body: a string or null.
Str(s) == [t |-> "str", s |-> s]
Null == [t |-> "null", s |-> ""]

\* The columns of app_users that the request schemas carry, in the order
\* CreateUser declares them.
Fields == <<"name", "password", "title", "description">>
FieldSet == {Fields[i] : i \in 1..Len(Fields)}
\* The unique columns of a User whose description lacks unique=True.
UniqueColumnsWithoutDescription == {"name", "title"}

\* unique=True columns of User.
UniqueColumns == {"name", "title", "description"}
\* nullable=False columns of User (among those a request can set).
NotNullColumns == {"name", "password", "title", "description"}

\* ------------------------------------------------------------ request bodies
NameVals == {"alice", "bob", "carol"}
TitleVals == {"T1", "T2", "T3"}
DescVals == {"D1", "D2", "D3"}
PwVals == {"longenough", "correcthorse"}
ShortPw == "short"

EmptyBody == [f \in {} |-> Null]
FullBody(n, t, d) ==
    [name |-> Str(n), password |-> Str("longenough"), title |-> Str(t), description |-> Str(d)]
BaseBody == FullBody("alice", "T1", "D1")
OtherBody == FullBody("bob", "T2", "D2")
Without(b, f) == [g \in (DOMAIN b) \ {f} |-> b[g]]
Only(f, v) == [g \in {f} |-> v]

\* Every field present and a string: two bodies that share no value, and the
\* second with one field taken from the first.
FullBodies ==
    {BaseBody, OtherBody, FullBody("alice", "T2", "D2"),
     FullBody("bob", "T1", "D2"), FullBody("bob", "T2", "D1")}
\* The base body with one field missing or empty, a null name, or a short
\* password.
DefectBodies ==
    {Without(BaseBody, f) : f \in FieldSet}
    \cup {[BaseBody EXCEPT ![f] = Str("")] : f \in FieldSet}
    \cup {[BaseBody EXCEPT !["name"] = Null]}
    \cup {[BaseBody EXCEPT !["password"] = Str(ShortPw)]}
\* One field present: a value, or null.
SingleBodies ==
    {Only("name", Str(v)) : v \in NameVals}
    \cup {Only("title", Str(v)) : v \in TitleVals}
    \cup {Only("description", Str(v)) : v \in DescVals}
    \cup {Only("password", Str(v)) : v \in PwVals \cup {ShortPw}}
    \cup {Only(f, Null) : f \in FieldSet}
PostBodies == FullBodies \cup DefectBodies
PatchBodies == SingleBodies \cup {EmptyBody, OtherBody}

\* ------------------------------------------------------------ state
VARIABLES
    store,      \* app_users: id -> row, for the rows that exist
    nextId,     \* the primary-key sequence
    clock,      \* requests received so far (the server's time, and the salt source)
    budget,     \* requests the behaviour may still receive
    propagate,  \* Flask's PROPAGATE_EXCEPTIONS: set when the process runs in debug
                \* or testing mode (app.run() takes debug from the environment)
    pc,         \* per slot: "idle", "fetch", "commit", "refresh", "done"
    req,        \* per slot: the request (method, path id, body, serial number)
    data,       \* per slot: user_data, the validated (and hashed) field map
    loaded,     \* per slot: the User object the session loaded
    resp,       \* per slot: the response
    sess,       \* per slot: sessions acquired and closed by the request
    lastPlain   \* history: id -> the plaintext of the last committed password

vars == <<store, nextId, clock, budget, propagate, pc, req, data, loaded, resp, sess, lastPlain>>

NoReq == [method |-> "", id |-> 0, body |-> EmptyBody, rid |-> 0]
NoData == EmptyBody
NoUser == [id |-> 0]
NoResp == [status |-> 0, body |-> [none |-> TRUE], exc |-> ""]
NoSess == [acquired |-> 0, closed |-> 0]

\* ------------------------------------------------------------ server.py: passwords
\* A hash_password that returns what it is given.
hash_password_plain(password, salt) == password

\* bcrypt.generate_password_hash: the digest carries its salt.  The salt is
\* fresh for each call; a request hashes at most once, so its serial number
\* stands for the random salt.
hash_password(password, salt) == "$2b$" \o ToString(salt) \o "$" \o password

\* bcrypt.check_password_hash: hash the candidate under the digest's salt
\* and compare.
check_password(password, hashed) ==
    \E salt \in 1..(MaxReqs + MaxId) : hashed = hash_password(password, salt)

\* ------------------------------------------------------------ schema.py
\* A secure_password with the minimal length 5.
secure_password_rejects_below_5(v) == Len(v) < 5

\* AbstractUser.secure_password raises ValueError for these.
secure_password_rejects(v) == Len(v) < 8

\* CreateUser(**json_data): every field required and a str; the password
\* validator runs on a str password.  Returns the exception and the
\* field map of .dict(exclude_unset=True).
CreateUser(body) ==
    IF \E f \in FieldSet : f \notin DOMAIN body \/ body[f].t # "str"
    THEN [exc |-> "ValidationError", data |-> NoData]
    ELSE IF secure_password_rejects(body["password"].s)
    THEN [exc |-> "ValidationError", data |-> NoData]
    ELSE [exc |-> "", data |-> body]

\* UpdateUser(**json_data): every field Optional[str] = None.  The inherited
\* password validator runs on whatever was supplied: len(None) raises
\* TypeError, which pydantic does not turn into a ValidationError.
\* exclude_unset keeps exactly the fields the body carries, None included.
UpdateUser(body) ==
    IF "password" \in DOMAIN body /\ body["password"] = Null
    THEN [exc |-> "TypeError", data |-> NoData]
    ELSE IF "password" \in DOMAIN body /\ secure_password_rejects(body["password"].s)
    THEN [exc |-> "ValidationError", data |-> NoData]
    ELSE [exc |-> "", data |-> body]

\* validate_json: ValidationError becomes HttpError(400); anything else
\* propagates.
validate_json(body, schema_class) ==
    IF schema_class = "CreateUser" THEN CreateUser(body) ELSE UpdateUser(body)

\* user_data['password'] = hash_password(user_data['password'])
HashData(d, salt) ==
    IF "password" \in DOMAIN d
    THEN [d EXCEPT !["password"] = Str(hash_password(d["password"].s, salt))]
    ELSE d

\* ------------------------------------------------------------ models.py
\* datetime.isoformat()
isoformat(t) == "T" \o ToString(t)

\* User.dict: the public projection.
dict(u) == [id |-> u.id, name |-> u.name,
            registration_time |-> isoformat(u.registration_time),
            title |-> u.title, description |-> u.description]

\* A NOT NULL column is assigned NULL.
NotNullViolation(vals) ==
    \E f \in (DOMAIN vals) \cap NotNullColumns : vals[f] = Null

\* Uniqueness enforced for inserted rows only, not for updated ones.
UniqueViolationOnInsertOnly(st, id, vals) ==
    /\ id \notin DOMAIN st
    /\ \E f \in (DOMAIN vals) \cap UniqueColumns : \E o \in DOMAIN st :
          vals[f].t = "str" /\ st[o][f] = vals[f].s

\* A unique column is assigned a value another row holds.
UniqueViolation(st, id, vals) ==
    \E f \in (DOMAIN vals) \cap UniqueColumns : \E o \in (DOMAIN st) \ {id} :
        vals[f].t = "str" /\ st[o][f] = vals[f].s

\* The row an INSERT of user_data writes: id from the sequence,
\* registration_time from server_default now().
NewRow(id, now, d) ==
    [id |-> id, name |-> d["name"].s, password |-> d["password"].s,
     registration_time |-> now, title |-> d["title"].s,
     description |-> d["description"].s]

\* The columns an UPDATE sets: the attributes whose value differs from the
\* loaded one (the unit of work flushes net changes only).
Changed(u, d) == {f \in DOMAIN d : d[f] # Str(u[f])}

\* An update that replaces the row: the fields not given are reset.
UpdatedRowReplaced(row, vals) ==
    [c \in DOMAIN row |->
        IF c \in DOMAIN vals THEN vals[c].s
        ELSE IF c \in {"name", "title", "description"} THEN "" ELSE row[c]]

\* The row after UPDATE ... SET vals.
UpdatedRow(row, vals) ==
    [c \in DOMAIN row |-> IF c \in DOMAIN vals THEN vals[c].s ELSE row[c]]

\* ------------------------------------------------------------ server.py: routing
\* app.add_url_rule: '/user/<int:user_id>' takes PATCH and DELETE, '/user'
\* takes POST.  id = 0 stands for the path '/user'.
Route(method, id) ==
    IF id = 0
    THEN IF method = "POST" THEN "user_view" ELSE "405"
    ELSE IF method \in {"PATCH", "DELETE"} THEN "user_view" ELSE "405"

\* The requests a client sends.
Requests ==
    {[method |-> "GET", id |-> i, body |-> EmptyBody] : i \in Ids}
    \cup {[method |-> "DELETE", id |-> i, body |-> EmptyBody] : i \in Ids}
    \cup {[method |-> "POST", id |-> 0, body |-> b] : b \in PostBodies}
    \cup {[method |-> "PATCH", id |-> i, body |-> b] : i \in Ids, b \in PatchBodies}

\* ------------------------------------------------------------ server.py: the end of a request
\* What a view ends with.
Returned(body) == [kind |-> "response", status |-> 200, body |-> body, exc |-> ""]
HttpError(status, message) ==
    [kind |-> "HttpError", status |-> status, body |-> [error |-> message], exc |-> ""]
MethodNotAllowed ==
    [kind |-> "HTTPException", status |-> 405, body |-> [error |-> "Method Not Allowed"], exc |-> ""]
Unhandled(exc) ==
    [kind |-> "Exception", status |-> 500, body |-> [error |-> "Internal Server Error"], exc |-> exc]

\* after_request runs on every response Flask itself builds: a view's
\* response, error_handler's response for an HttpError, the response of an
\* HTTPException and the 500 of handle_exception.  With PROPAGATE_EXCEPTIONS
\* handle_exception re-raises instead and the response is never built.
RunsAfterRequest(out) == ~(out.kind = "Exception" /\ propagate)

\* after_request: request.session.close()
after_request(s, out) ==
    IF RunsAfterRequest(out) THEN [s EXCEPT !.closed = @ + 1] ELSE s

\* The request of slot r ends with outcome out; s is its session record.
Finish(r, s, out) ==
    /\ pc' = [pc EXCEPT ![r] = "done"]
    /\ resp' = [resp EXCEPT ![r] = [status |-> out.status, body |-> out.body, exc |-> out.exc]]
    /\ sess' = [sess EXCEPT ![r] = after_request(s, out)]
    /\ data' = [data EXCEPT ![r] = NoData]
    /\ loaded' = [loaded EXCEPT ![r] = NoUser]

\* The request of slot r goes on to step next.
Continue(r, next, s, d, u) ==
    /\ pc' = [pc EXCEPT ![r] = next]
    /\ resp' = [resp EXCEPT ![r] = NoResp]
    /\ sess' = [sess EXCEPT ![r] = s]
    /\ data' = [data EXCEPT ![r] = d]
    /\ loaded' = [loaded EXCEPT ![r] = u]

\* ------------------------------------------------------------ actions
Init ==
    /\ store = [i \in {} |-> NoUser]
    /\ nextId = 1
    /\ clock = 0
    /\ budget = MaxReqs
    /\ propagate \in BOOLEAN
    /\ pc = [r \in Req |-> "idle"]
    /\ req = [r \in Req |-> NoReq]
    /\ data = [r \in Req |-> NoData]
    /\ loaded = [r \in Req |-> NoUser]
    /\ resp = [r \in Req |-> NoResp]
    /\ sess = [r \in Req |-> NoSess]
    /\ lastPlain = [i \in {} |-> ""]

\* POSTs that passed validation and have not yet drawn from the sequence.
PendingInserts == Cardinality({r \in Req : pc[r] = "commit" /\ req[r].method = "POST"})

\* A request arrives: before_request opens the session, the URL map picks
\* the view, and the view runs up to its first access to the store
\* (validate_json and hash_password for POST and PATCH).
Receive(r) ==
    /\ pc[r] \in {"idle", "done"}
    /\ budget > 0
    /\ \E q \in Requests :
        LET rid == clock + 1
            s == [acquired |-> 1, closed |-> 0]
            v == validate_json(q.body, IF q.method = "POST" THEN "CreateUser" ELSE "UpdateUser")
        IN  /\ (q.method = "POST" /\ v.exc = "") => nextId + PendingInserts <= MaxId
            /\ req' = [req EXCEPT ![r] = [method |-> q.method, id |-> q.id, body |-> q.body, rid |-> rid]]
            /\ clock' = rid
            /\ budget' = budget - 1
            /\ IF Route(q.method, q.id) = "405"
               THEN Finish(r, s, MethodNotAllowed)
               ELSE IF q.method \in {"POST", "PATCH"}
               THEN IF v.exc = "ValidationError"
                    THEN Finish(r, s, HttpError(400, "validation"))
                    ELSE IF v.exc # ""
                    THEN Finish(r, s, Unhandled(v.exc))
                    ELSE Continue(r, IF q.method = "POST" THEN "commit" ELSE "fetch",
                                  s, HashData(v.data, rid), NoUser)
               ELSE Continue(r, "fetch", s, NoData, NoUser)
    /\ UNCHANGED <<store, nextId, propagate, lastPlain>>

\* get_user_by_id: session.query(User).get(user_id), 404 when there is no
\* row.  UserView.get answers with the projection of what it loaded.
Fetch(r) ==
    /\ pc[r] = "fetch"
    /\ IF req[r].id \notin DOMAIN store
       THEN Finish(r, sess[r], HttpError(404, "user not found"))
       ELSE IF req[r].method = "GET"
       THEN Finish(r, sess[r], Returned(dict(store[req[r].id])))
       ELSE Continue(r, "commit", sess[r], data[r], store[req[r].id])
    /\ UNCHANGED <<store, nextId, clock, budget, propagate, req, lastPlain>>

\* What the plaintext history becomes when request r commits its password.
Accepted(r, id) ==
    IF "password" \in DOMAIN req[r].body
    THEN [i \in (DOMAIN lastPlain) \cup {id} |->
            IF i = id THEN req[r].body["password"].s ELSE lastPlain[i]]
    ELSE lastPlain

\* UserView.post: add_user(User(**user_data)).  The INSERT draws the id from
\* the sequence whether or not it succeeds.
CommitInsert(r) ==
    /\ nextId' = nextId + 1
    /\ IF NotNullViolation(data[r]) \/ UniqueViolation(store, nextId, data[r])
       THEN /\ Finish(r, sess[r], HttpError(409, "user already exist"))
            /\ UNCHANGED <<store, lastPlain>>
       ELSE /\ store' = [i \in (DOMAIN store) \cup {nextId} |->
                           IF i = nextId THEN NewRow(nextId, clock, data[r]) ELSE store[i]]
            /\ lastPlain' = Accepted(r, nextId)
            /\ Continue(r, "refresh", sess[r], NoData, [id |-> nextId])

\* UserView.patch: setattr for every field of user_data, then add_user(user).
\* The flush emits UPDATE ... WHERE id = :id for the changed attributes; it
\* raises StaleDataError when no row matches and IntegrityError when the
\* store rejects the values.  add_user turns IntegrityError into 409.
CommitUpdate(r) ==
    LET id == req[r].id
        vals == [f \in Changed(loaded[r], data[r]) |-> data[r][f]]
    IN  /\ UNCHANGED nextId
        /\ IF DOMAIN vals = {}
           THEN /\ Continue(r, "refresh", sess[r], NoData, [id |-> id])
                /\ UNCHANGED <<store, lastPlain>>
           ELSE IF id \notin DOMAIN store
           THEN /\ Finish(r, sess[r], Unhandled("StaleDataError"))
                /\ UNCHANGED <<store, lastPlain>>
           ELSE IF NotNullViolation(vals) \/ UniqueViolation(store, id, vals)
           THEN /\ Finish(r, sess[r], HttpError(409, "user already exist"))
                /\ UNCHANGED <<store, lastPlain>>
           ELSE /\ store' = [store EXCEPT ![id] = UpdatedRow(store[id], vals)]
                /\ lastPlain' = IF "password" \in DOMAIN vals THEN Accepted(r, id) ELSE lastPlain
                /\ Continue(r, "refresh", sess[r], NoData, [id |-> id])

\* UserView.delete: session.delete(user); session.commit().  A DELETE that
\* matches no row only warns, and the view answers as if it had deleted.
CommitDelete(r) ==
    LET id == req[r].id
    IN  /\ UNCHANGED nextId
        /\ store' = [i \in (DOMAIN store) \ {id} |-> store[i]]
        /\ lastPlain' = [i \in (DOMAIN lastPlain) \ {id} |-> lastPlain[i]]
        /\ Finish(r, sess[r], Returned([status |-> "deleted"]))

Commit(r) ==
    /\ pc[r] = "commit"
    /\ CASE req[r].method = "POST" -> CommitInsert(r)
         [] req[r].method = "PATCH" -> CommitUpdate(r)
         [] OTHER -> CommitDelete(r)
    /\ UNCHANGED <<clock, budget, propagate, req>>

\* session.commit() fails in the store for a reason that is no constraint
\* (the connection drops): OperationalError, which nothing catches.
CommitFail(r) ==
    /\ pc[r] = "commit"
    /\ Finish(r, sess[r], Unhandled("OperationalError"))
    /\ UNCHANGED <<store, nextId, clock, budget, propagate, req, lastPlain>>

\* jsonify(user.dict) after the commit: the commit expired the object, so
\* reading it reloads the row; ObjectDeletedError when the row is gone.
Refresh(r) ==
    /\ pc[r] = "refresh"
    /\ IF loaded[r].id \in DOMAIN store
       THEN Finish(r, sess[r], Returned(dict(store[loaded[r].id])))
       ELSE Finish(r, sess[r], Unhandled("ObjectDeletedError"))
    /\ UNCHANGED <<store, nextId, clock, budget, propagate, req, lastPlain>>

Next ==
    \E r \in Req :
        \/ Receive(r)
        \/ Fetch(r)
        \/ Commit(r)
        \/ CommitFail(r)
        \/ Refresh(r)

Spec == Init /\ [][Next]_vars

\* ------------------------------------------------------------ two requests on a populated store
\* The table after k users were created one after the other, from BaseBody
\* and then OtherBody.
SeedStore(k) ==
    [i \in 1..k |-> NewRow(i, i, HashData(IF i = 1 THEN BaseBody ELSE OtherBody, i))]

\* A state Spec reaches (k POSTs, answered before the next arrives), from
\* which exactly two more requests are received.
InitRace ==
    \E k \in {0, 1, 2} :
        /\ store = SeedStore(k)
        /\ nextId = k + 1
        /\ clock = k
        /\ budget = 2
        /\ propagate \in BOOLEAN
        /\ pc = [r \in Req |-> "idle"]
        /\ req = [r \in Req |-> NoReq]
        /\ data = [r \in Req |-> NoData]
        /\ loaded = [r \in Req |-> NoUser]
        /\ resp = [r \in Req |-> NoResp]
        /\ sess = [r \in Req |-> NoSess]
        /\ lastPlain = [i \in 1..k |-> "longenough"]

SpecRace == InitRace /\ [][Next]_vars

\* ------------------------------------------------------------ properties
\* Slot r receives a request in this step.
Arrives(r) == req'[r].rid # req[r].rid
\* The request of slot r is answered in this step.
Answered(r) == pc'[r] = "done" /\ (pc[r] # "done" \/ Arrives(r))
\* Slot r takes its commit step (session.commit() is called) in this step.
Commits(r) == pc[r] = "commit" /\ pc'[r] # "commit"
\* The request of slot r is a POST or PATCH whose body passes validation.
ValidWrite(q) ==
    /\ q.method \in {"POST", "PATCH"}
    /\ validate_json(q.body, IF q.method = "POST" THEN "CreateUser" ELSE "UpdateUser").exc = ""
\* The request body carries a password string shorter than 8 characters.
ShortPassword(q) ==
    /\ q.method \in {"POST", "PATCH"}
    /\ "password" \in DOMAIN q.body
    /\ q.body["password"].t = "str"
    /\ Len(q.body["password"].s) < 8

\* C1: every stored password is a digest of the plaintext most recently
\* accepted for that user (by the POST that created it or a later PATCH that
\* committed a password): it differs from that plaintext and check_password
\* accepts the plaintext against it.
C1_StoredPasswordIsDigest ==
    \A i \in DOMAIN store :
        /\ i \in DOMAIN lastPlain
        /\ store[i].password # lastPlain[i]
        /\ check_password(lastPlain[i], store[i].password)
        /\ \A p \in (PwVals \cup {ShortPw, ""}) \ {lastPlain[i]} :
               ~check_password(p, store[i].password)

\* A PATCH replaced the password a POST had set, and was answered 200.
C1_Witness ==
    \E r \in Req :
        /\ pc[r] = "done" /\ req[r].method = "PATCH" /\ resp[r].status = 200
        /\ req[r].body = Only("password", Str("correcthorse"))
        /\ req[r].id \in DOMAIN store
        /\ lastPlain[req[r].id] = "correcthorse"

\* The three fields that must be unique among the stored users.
UniqueFields == {"name", "title", "description"}

\* No two stored users share a name, a title or a description.
C2_Unique ==
    \A i \in DOMAIN store : \A j \in (DOMAIN store) \ {i} :
        \A f \in UniqueFields : store[i][f] # store[j][f]

\* The write request r is about to commit carries, for a unique column, a
\* value that another stored user holds: any row for the INSERT of a POST;
\* for a PATCH a row other than the target, in a column the PATCH changes.
C2_Collides(r) ==
    \E f \in UniqueFields \cap DOMAIN req[r].body :
        /\ req[r].body[f].t = "str"
        /\ IF req[r].method = "POST"
           THEN \E o \in DOMAIN store : store[o][f] = req[r].body[f].s
           ELSE /\ req[r].method = "PATCH"
                /\ req[r].id \in DOMAIN store
                /\ req[r].body[f].s # loaded[r][f]
                /\ \E o \in (DOMAIN store) \ {req[r].id} : store[o][f] = req[r].body[f].s

C2_RejectsCollision ==
    \A r \in Req :
        (Commits(r) /\ C2_Collides(r) /\ resp'[r].exc # "OperationalError")
            => (pc'[r] = "done" /\ resp'[r].status = 409 /\ store' = store)

\* C2: name, title and description are each unique among the stored users in
\* every reachable state, and a POST or PATCH whose write collides with
\* another stored user on one of them is answered 409 and changes no row
\* (unless the commit fails in the store for another reason).
C2_UniqueAndRejected == []C2_Unique /\ [][C2_RejectsCollision]_vars

\* With two users stored, a PATCH of one to the other's title was answered
\* 409 and both rows are intact.
C2_Witness ==
    \E r \in Req :
        /\ pc[r] = "done" /\ req[r].method = "PATCH" /\ resp[r].status = 409
        /\ req[r].body = Only("title", Str("T1"))
        /\ DOMAIN store = {1, 2}
        /\ req[r].id = 2
        /\ store[1].title = "T1" /\ store[2].title = "T2"

\* What one step of a PATCH (its arrival, fetch, commit or read-back) leaves
\* alone.
C3_PatchFrameStep ==
    \A r \in Req :
        ((Arrives(r) /\ req'[r].method = "PATCH")
           \/ (req[r].method = "PATCH" /\ pc[r] \in {"fetch", "commit", "refresh"} /\ pc'[r] # pc[r]))
        => /\ DOMAIN store' = DOMAIN store
           /\ \A i \in DOMAIN store :
                IF i # req'[r].id
                THEN store'[i] = store[i]
                ELSE /\ store'[i].id = store[i].id
                     /\ store'[i].registration_time = store[i].registration_time
                     /\ \A f \in FieldSet \ DOMAIN req'[r].body : store'[i][f] = store[i][f]

\* C3: whatever step a PATCH takes, the rows of all other users stay as they
\* are, no row appears or disappears, and in the target row id,
\* registration_time and every field the body does not carry keep their
\* values.
C3_PatchChangesOnlyGivenFields == [][C3_PatchFrameStep]_vars

\* A PATCH carrying only a title was answered 200: the title is the new one,
\* the name, description, password and registration time are the POST's.
C3_Witness ==
    \E r \in Req :
        /\ pc[r] = "done" /\ req[r].method = "PATCH" /\ resp[r].status = 200
        /\ req[r].body = Only("title", Str("T3"))
        /\ req[r].id \in DOMAIN store
        /\ store[req[r].id].title = "T3"
        /\ store[req[r].id].name = "alice"
        /\ store[req[r].id].description = "D1"
        /\ check_password("longenough", store[req[r].id].password)
        /\ resp[r].body = dict(store[req[r].id])

\* The answer to a GET, against the store at the moment it is given.
C4_GetStep ==
    \A r \in Req :
        (Answered(r) /\ req'[r].method = "GET")
            => IF req'[r].id \in DOMAIN store
               THEN resp'[r].status = 200 /\ resp'[r].body = dict(store[req'[r].id])
               ELSE resp'[r].status = 404

\* C4: a GET on a stored id is answered 200 with the projection of the
\* stored row, and a GET on any other id is answered 404.
C4_GetReflectsStore == [][C4_GetStep]_vars

\* C5: a request in flight holds exactly one open session, and an answered
\* request has acquired exactly one session and closed it exactly once,
\* whatever ended it.
C5_SessionClosedExactlyOnce ==
    \A r \in Req :
        /\ pc[r] \in {"fetch", "commit", "refresh"} => sess[r] = [acquired |-> 1, closed |-> 0]
        /\ pc[r] = "done" => sess[r] = [acquired |-> 1, closed |-> 1]

\* The row an answered write request wrote, or tried to write: the path id
\* of a PATCH, the id a successful POST returned, 0 for a rejected POST.
C6_Target(r) ==
    IF req[r].method = "PATCH" THEN req[r].id
    ELSE IF resp[r].status = 200 THEN resp[r].body.id
    ELSE 0

\* The two requests write different rows.
C6_DifferentTargets(r1, r2) == C6_Target(r1) # C6_Target(r2) \/ C6_Target(r1) = 0

\* Both bodies carry the same string for some unique column.
C6_SameUniqueValue(q1, q2) ==
    \E f \in UniqueFields \cap (DOMAIN q1.body) \cap (DOMAIN q2.body) :
        q1.body[f].t = "str" /\ q1.body[f] = q2.body[f]

\* The request reached its commit (its body was valid and, for a PATCH, the
\* target was found) and the store did not fail under it.
C6_Tried(r) ==
    /\ pc[r] = "done"
    /\ ValidWrite(req[r])
    /\ resp[r].status # 404
    /\ resp[r].exc # "OperationalError"

C6_AtMostOneWins ==
    \A r1 \in Req : \A r2 \in Req \ {r1} :
        (/\ C6_Tried(r1) /\ C6_Tried(r2)
         /\ C6_DifferentTargets(r1, r2)
         /\ C6_SameUniqueValue(req[r1], req[r2]))
        => /\ resp[r1].status \in {200, 409}
           /\ resp[r2].status \in {200, 409}
           /\ ~(resp[r1].status = 200 /\ resp[r2].status = 200)

\* A request answered 409 wrote nothing in the step that answered it.
C6_LoserStoresNothing ==
    \A r \in Req : (Answered(r) /\ resp'[r].status = 409) => store' = store

\* A POST never reads the store before its INSERT.
C6_NoPreCheck == \A r \in Req : pc[r] = "fetch" => req[r].method # "POST"

\* C6: of two requests (POST/POST, POST/PATCH, PATCH/PATCH on different ids),
\* in any interleaving, that both reach their commit with the same value for
\* the same unique column, at most one is answered 200 and the other is
\* answered 409 and writes nothing; a POST reads nothing before it writes.
C6_RaceHasOneWinner ==
    /\ [](C6_AtMostOneWins /\ C6_NoPreCheck)
    /\ [][C6_LoserStoresNothing]_vars

\* Two PATCHes of different users to the same free name: one was answered
\* 200 and holds the name, the other 409.
C6_Witness ==
    \E r1 \in Req : \E r2 \in Req \ {r1} :
        /\ pc[r1] = "done" /\ pc[r2] = "done"
        /\ req[r1].method = "PATCH" /\ req[r2].method = "PATCH"
        /\ req[r1].id # req[r2].id
        /\ req[r1].body = Only("name", Str("carol"))
        /\ req[r2].body = Only("name", Str("carol"))
        /\ resp[r1].status = 200 /\ resp[r2].status = 409
        /\ req[r2].rid < req[r1].rid
        /\ store[req[r1].id].name = "carol"

\* The answers 409 and 5xx, against the store at the moment they are given.
C7_ConflictStep ==
    \A r \in Req :
        /\ (Answered(r) /\ resp'[r].status = 409) => C2_Collides(r)
        /\ (Answered(r) /\ resp'[r].exc = "OperationalError") => resp'[r].status >= 500

\* C7: a commit is answered 409 only when it collides with another stored
\* user on name, title or description; a commit the store rejects for any
\* other reason is answered with a 5xx status.
C7_ConflictOnlyForUniqueness == [][C7_ConflictStep]_vars

\* The step that receives a request with a short password.
C8_ShortPasswordStep ==
    \A r \in Req :
        (Arrives(r) /\ ShortPassword(req'[r]))
            => /\ pc'[r] = "done"
               /\ resp'[r].status = 400
               /\ store' = store
               /\ nextId' = nextId

\* C8: a POST or PATCH carrying a password shorter than 8 characters is
\* answered 400 in the step that receives it, before any access to the
\* store: no row and no sequence value changes.
C8_ShortPasswordRejected == [][C8_ShortPasswordStep]_vars

\* A PATCH with a short password for an id that was never created was
\* answered 400, not 404, and a POST with a short password was answered 400
\* with the table still empty.
C8_Witness ==
    \E r1 \in Req : \E r2 \in Req \ {r1} :
        /\ pc[r1] = "done" /\ req[r1].method = "PATCH"
        /\ req[r1].body = Only("password", Str(ShortPw))
        /\ req[r1].id >= nextId
        /\ resp[r1].status = 400
        /\ pc[r2] = "done" /\ req[r2].method = "POST"
        /\ req[r2].body = [BaseBody EXCEPT !["password"] = Str(ShortPw)]
        /\ resp[r2].status = 400
        /\ store = SeedStore(0)

\* C9: a POST in whose body one of the four fields is missing or is the
\* empty string is answered 400 (and so creates no row).
C9_PostNeedsNonEmptyFields ==
    \A r \in Req :
        (/\ pc[r] = "done" /\ req[r].method = "POST"
         /\ \E f \in FieldSet : f \notin DOMAIN req[r].body \/ req[r].body[f] = Str(""))
        => resp[r].status = 400

\* The deletion of an id is acknowledged by at most one DELETE.
C10_OneAcknowledgement ==
    \A r1 \in Req : \A r2 \in Req \ {r1} :
        ~(/\ pc[r1] = "done" /\ pc[r2] = "done"
          /\ req[r1].method = "DELETE" /\ req[r2].method = "DELETE"
          /\ req[r1].id = req[r2].id
          /\ resp[r1].status = 200 /\ resp[r2].status = 200)

\* A DELETE or PATCH that commits, or reads back, after its user was deleted
\* is answered 404.
C10_LateStep ==
    \A r \in Req :
        (/\ Answered(r) /\ pc[r] \in {"commit", "refresh"}
         /\ req[r].method \in {"DELETE", "PATCH"}
         /\ req[r].id \notin DOMAIN store
         /\ resp'[r].exc # "OperationalError")
        => resp'[r].status = 404

\* C10: at most one DELETE of an id is answered 200, and every other DELETE
\* or PATCH of that id whose commit comes after the deletion is answered 404,
\* also when it fetched the user before.
C10_DeleteAcknowledgedOnce == []C10_OneAcknowledgement /\ [][C10_LateStep]_vars

====
